---------------------------- MODULE Spec2Model ----------------------------
(***************************************************************************)
(* State-machine model of src/spm_decode_main.cc: the spm_decode driver.   *)
(*                                                                         *)
(* Text is modelled as sequences of byte values (0..255), so that the line *)
(* reader, the tokenizer, atoi and the binary id reader all work on the    *)
(* same file contents.  The tokenization model (Load, Decode), the line    *)
(* oriented file layer and StrSplit live outside spm_decode_main.cc; they  *)
(* are modelled here from their documented contract.                       *)
(***************************************************************************)
EXTENDS Integers, Sequences, FiniteSets, TLC

(***************************************************************************)
(* Bounds of the model.                                                    *)
(***************************************************************************)
\* Largest number of positional arguments tried.
MaxArgs == 2
\* Longest input line tried by the ToIds harness.
MaxLineLen == 4
\* Largest binary file (in bytes) tried by the readFileToVector harness.
MaxBytes == 4

(***************************************************************************)
(* Bytes.                                                                  *)
(***************************************************************************)
\* The " " delimiter of absl::StrSplit(line, " ").
SP == 32
\* The line terminator of ReadLine.
NL == 10
\* The number of bytes of one element: sizeof(uint16_t).
SizeofU16 == 2

IsSpace(c) == c \in {9, 10, 11, 12, 13, 32}
IsDigit(c) == c \in 48..57

(***************************************************************************)
(* The environment: a small file system and the standard input.            *)
(***************************************************************************)
\* "ab 1x\n\nd\n": three lines, the second one empty.
PiecesTxt == <<97, 98, 32, 49, 120, 10, 10, 100, 10>>
\* "15 42 7\n-3\n9": the second line holds an id outside the vocabulary,
\* the last line has no terminator.
IdsTxt == <<49, 53, 32, 52, 50, 32, 55, 10, 45, 51, 10, 57>>
\* 0F 00 2A 00 07: two little-endian 16-bit ids and a trailing odd byte.
IdsBin == <<15, 0, 42, 0, 7>>
\* "7\n" waits on the standard input (as 16-bit ids: the single id 2615).
StdinData == <<55, 10>>

\* The paths the command line may name; "missing" does not exist.
Paths == {"pieces.txt", "ids.txt", "ids.bin", "missing"}

FileExists(path) == path \in {"pieces.txt", "ids.txt", "ids.bin"}

FileBytes(path) ==
  CASE path = "pieces.txt" -> PiecesTxt
    [] path = "ids.txt" -> IdsTxt
    [] path = "ids.bin" -> IdsBin
    [] OTHER -> <<>>


(***************************************************************************)
(* External collaborators, modelled from their contract.                   *)
(***************************************************************************)
\* The size of the loaded model's vocabulary: ids 0..VocabSize-1 are valid.
VocabSize == 8000
\* A byte no well-formed piece contains.
BadByte == 255

\* sp.Load(path): the model file "missing.model" cannot be loaded.
LoadOk(path) == path # "missing.model"

\* sp.SetDecodeExtraOptions(spec): only the empty spec, "reverse", "bos" and
\* "eos" (and their ":" joins) are understood.
ExtraOptionsOk(spec) == spec \in {"", "reverse", "bos", "eos", "reverse:bos:eos"}

\* filesystem::NewWritableFile(path): "" is the standard output; a file in
\* a directory that does not exist cannot be created.
WritableOk(path) == path # "/nodir/out"

\* filesystem::NewReadableFile(path): "" is the standard input.
ReadableOk(path) == path = "" \/ FileExists(path)

\* The bytes behind a readable stream opened by NewReadableFile.
ReadableBytes(path) == IF path = "" THEN StdinData ELSE FileBytes(path)

\* Position (1-based) of the first NL after the first `pos` bytes, or
\* Len(bytes) + 1 when there is none.
RECURSIVE FindNL(_, _)
FindNL(bytes, pos) ==
  IF pos >= Len(bytes) THEN Len(bytes) + 1
  ELSE IF bytes[pos + 1] = NL THEN pos + 1
  ELSE FindNL(bytes, pos + 1)

\* input->ReadLine(&line) on a stream that has consumed `pos` bytes: fails
\* at the end of the data, else yields the bytes up to the next NL (or the
\* end) and consumes the NL.
ReadLine(bytes, pos) ==
  LET nl == FindNL(bytes, pos)
  IN  [ok   |-> pos < Len(bytes),
       line |-> IF pos < Len(bytes) THEN SubSeq(bytes, pos + 1, nl - 1) ELSE <<>>,
       pos  |-> IF nl > Len(bytes) THEN Len(bytes) ELSE nl]

\* str.find_first_of(delim, from), 0-based; -1 stands for npos.
RECURSIVE FindFirstOf(_, _, _)
FindFirstOf(str, delim, from) ==
  IF from >= Len(str) THEN -1
  ELSE IF str[from + 1] = delim THEN from
  ELSE FindFirstOf(str, delim, from + 1)

\* The loop of the split: empty fields are not emitted.
RECURSIVE SplitLoop(_, _, _, _)
SplitLoop(str, delim, current_pos, output) ==
  LET found_pos == FindFirstOf(str, delim, current_pos)
  IN  IF found_pos # -1
      THEN SplitLoop(str, delim, found_pos + 1,
                     IF found_pos > current_pos
                     THEN Append(output, SubSeq(str, current_pos + 1, found_pos))
                     ELSE output)
      ELSE IF Len(str) > current_pos
           THEN Append(output, SubSeq(str, current_pos + 1, Len(str)))
           ELSE output

\* absl::StrSplit(line, " ").
StrSplit(line) == SplitLoop(line, SP, 0, <<>>)

\* Whether Decode accepts the batch: every id is in the vocabulary, no piece
\* is malformed.  The empty batch is accepted.
DecodeOk(kind, input) ==
  IF kind = "ids"
  THEN \A i \in 1..Len(input) : input[i] \in 0..(VocabSize - 1)
  ELSE \A i \in 1..Len(input) :
         \A j \in 1..Len(input[i]) : input[i][j] # BadByte

\* The text the model's string decode yields for a batch: an opaque value,
\* a function of the kind of batch and of the batch.
DecodeText(kind, input) == [kind |-> kind, of |-> input]

\* The value of `detok` before the first decode.
NoText == [kind |-> "none", of |-> <<>>]

(***************************************************************************)
(* atoi and ToIds (lines 99-106).                                          *)
(***************************************************************************)
\* The digits of atoi: accumulates from position i while digits follow.
RECURSIVE AtoiDigits(_, _, _)
AtoiDigits(s, i, acc) ==
  IF i <= Len(s) /\ IsDigit(s[i])
  THEN AtoiDigits(s, i + 1, 10 * acc + (s[i] - 48))
  ELSE acc

\* The first position of s at or after i that holds no white space.
RECURSIVE SkipSpace(_, _)
SkipSpace(s, i) ==
  IF i <= Len(s) /\ IsSpace(s[i]) THEN SkipSpace(s, i + 1) ELSE i

\* Faulty variant of atoi: a validating parse, 0 unless the whole token is
\* an optionally signed run of digits.
AtoiStrict(s) ==
  LET neg == Len(s) >= 1 /\ s[1] = 45
      j == IF Len(s) >= 1 /\ s[1] \in {43, 45} THEN 2 ELSE 1
      whole == j <= Len(s) /\ \A k \in j..Len(s) : IsDigit(s[k])
      v == AtoiDigits(s, j, 0)
  IN  IF whole THEN (IF neg THEN -v ELSE v) ELSE 0

\* atoi(s.c_str()): skips white space, takes an optional sign, then the
\* longest run of digits; 0 when there is none.  (Values beyond int are
\* undefined behaviour; lines of at most 9 digits never reach that.)
Atoi(s) ==
  LET i == SkipSpace(s, 1)
      neg == i <= Len(s) /\ s[i] = 45
      j == IF i <= Len(s) /\ s[i] \in {43, 45} THEN i + 1 ELSE i
      v == AtoiDigits(s, j, 0)
  IN  IF neg THEN -v ELSE v

\* ToIds: one id per piece, in order.
ToIds(pieces) == [k \in 1..Len(pieces) |-> Atoi(pieces[k])]

(***************************************************************************)
(* readFileToVector (lines 39-66).                                         *)
(***************************************************************************)
\* Faulty variant of the element read: the 16 bits taken as a signed short.
Int16(b0, b1) ==
  IF b0 + 256 * b1 >= 32768 THEN b0 + 256 * b1 - 65536 ELSE b0 + 256 * b1

\* The value of a uint16_t whose two bytes, in memory order, are b0 and b1
\* (the object representation of the little-endian targets the tool is
\* built for).
Uint16(b0, b1) == b0 + 256 * b1

\* The loop of lines 58-62: element i is read from the next two bytes.
RECURSIVE ReadLoop(_, _, _, _)
ReadLoop(bytes, i, numElements, result) ==
  IF i < numElements
  THEN ReadLoop(bytes, i + 1, numElements,
                Append(result, Uint16(bytes[SizeofU16 * i + 1],
                                      bytes[SizeofU16 * i + 2])))
  ELSE result

\* numElements = tellg() / sizeof(uint16_t).
NumElements(size) == size \div SizeofU16

\* std::ifstream inFile(filename): the empty name opens nothing.
IfstreamOk(filename) == FileExists(filename)

\* readFileToVector's result for a file that opened, given its bytes.
ReadVector(bytes) == ReadLoop(bytes, 0, NumElements(Len(bytes)), <<>>)

\* readFileToVector(filename).
readFileToVector(filename) ==
  IF ~IfstreamOk(filename) THEN <<>> ELSE ReadVector(FileBytes(filename))

(***************************************************************************)
(* The state of a run of main().                                           *)
(***************************************************************************)
VARIABLES
  FLAGS_model, FLAGS_input, FLAGS_output, FLAGS_input_format,
  FLAGS_output_format, FLAGS_extra_options,
  argv,          \* the positional arguments left by ParseCommandLineFlags
  pc,            \* the position of main()
  rest_args,     \* the input sources
  process,       \* the string-batch closure slot
  process_int,   \* the integer-batch closure slot
  fileIdx,       \* the index in rest_args of the batch loop's `filename`
  inPos,         \* the bytes the open input stream has consumed
  line, detok,   \* the locals of line 94
  outOpened,     \* whether the output sink has been opened
  sink,          \* the lines written to the output sink
  opened,        \* every attempt to open an input source, in order
  calls,         \* every closure invocation, in order
  exit,          \* "running", "zero" or "nonzero"
  fatal,         \* what ended the run, "" when nothing did
  h_pc, h_in, h_out   \* a single application of ToIds or readFileToVector

flags == <<FLAGS_model, FLAGS_input, FLAGS_output, FLAGS_input_format,
           FLAGS_output_format, FLAGS_extra_options, argv>>
locals == <<rest_args, process, process_int, fileIdx, inPos, line, detok>>
world == <<outOpened, sink, opened, calls>>
harness == <<h_pc, h_in, h_out>>
vars == <<flags, pc, locals, world, exit, fatal, harness>>

\* All sequences over S of length at most n.
SeqsUpTo(S, n) == UNION {[1..k -> S] : k \in 0..n}

Init ==
  /\ FLAGS_model \in {"", "m.model", "missing.model"}
  /\ FLAGS_input \in {"", "ids.txt"}
  /\ FLAGS_output \in {"", "/nodir/out"}
  /\ FLAGS_input_format \in {"piece", "id", "map", "xyz"}
  /\ FLAGS_output_format \in {"string", "proto", "xyz"}
  /\ FLAGS_extra_options \in {"", "bogus"}
  /\ argv \in SeqsUpTo(Paths, MaxArgs)
  /\ pc = "args"
  /\ rest_args = <<>>
  /\ process = "unset"
  /\ process_int = "unset"
  /\ fileIdx = 1
  /\ inPos = 0
  /\ line = <<>>
  /\ detok = NoText
  /\ outOpened = FALSE
  /\ sink = <<>>
  /\ opened = <<>>
  /\ calls = <<>>
  /\ exit = "running"
  /\ fatal = ""
  /\ h_pc = "idle"
  /\ h_in = <<>>
  /\ h_out = <<>>

\* CHECK, CHECK_OK and LOG(FATAL): the process ends at once, non-zero.
Fatal(reason) ==
  /\ pc' = "aborted"
  /\ exit' = "nonzero"
  /\ fatal' = reason

\* Faulty variant of lines 71-82: the loop over argv stops after argv[1].
RestArgsFirstOnly(input, args) ==
  LET given == IF input # "" THEN <<input>>
               ELSE IF args = <<>> THEN <<>> ELSE <<args[1]>>
  IN  IF given = <<>> THEN <<"">> ELSE given

\* Lines 71-82 as a function of the flags.
RestArgs(input, args) ==
  LET given == IF input = "" THEN args ELSE <<input>>
  IN  IF given = <<>> THEN <<"">> ELSE given

\* Lines 70-82: the input sources.
BuildRestArgs ==
  /\ pc = "args"
  /\ rest_args' = RestArgs(FLAGS_input, argv)
  /\ pc' = "check_model"
  /\ UNCHANGED <<flags, process, process_int, fileIdx, inPos, line, detok,
                 world, exit, fatal, harness>>

\* Line 84: CHECK(!model.empty()).
CheckModel ==
  /\ pc = "check_model"
  /\ IF FLAGS_model = ""
     THEN Fatal("model_empty")
     ELSE pc' = "load" /\ UNCHANGED <<exit, fatal>>
  /\ UNCHANGED <<flags, locals, world, harness>>

\* Lines 86-88: Load and SetDecodeExtraOptions.
LoadModel ==
  /\ pc = "load"
  /\ IF ~LoadOk(FLAGS_model)
     THEN Fatal("load")
     ELSE IF ~ExtraOptionsOk(FLAGS_extra_options)
     THEN Fatal("extra_options")
     ELSE pc' = "open_output" /\ UNCHANGED <<exit, fatal>>
  /\ UNCHANGED <<flags, locals, world, harness>>

\* Lines 90-92: the output sink.
OpenOutput ==
  /\ pc = "open_output"
  /\ IF WritableOk(FLAGS_output)
     THEN /\ outOpened' = TRUE
          /\ pc' = "dispatch"
          /\ UNCHANGED <<exit, fatal>>
     ELSE /\ Fatal("open_output")
          /\ UNCHANGED outOpened
  /\ UNCHANGED <<flags, locals, sink, opened, calls, harness>>

(***************************************************************************)
(* The format dispatch (lines 108-152).  A closure slot holds "unset" (an  *)
(* empty std::function) or the name of the lambda assigned to it.          *)
(***************************************************************************)
OutputFormats == {"string", "proto"}

\* What lines 108-152 leave in `process`.
ProcessFor(input_format, output_format) ==
  IF input_format \in {"piece", "id"} /\ output_format \in OutputFormats
  THEN IF input_format = "piece"
       THEN (IF output_format = "string" THEN "piece_string" ELSE "piece_proto")
       ELSE (IF output_format = "string" THEN "id_string" ELSE "id_proto")
  ELSE "unset"

\* What lines 108-152 leave in `process_int`.
ProcessIntFor(input_format, output_format) ==
  IF input_format = "map" /\ output_format \in OutputFormats
  THEN (IF output_format = "string" THEN "map_string" ELSE "map_proto")
  ELSE "unset"

\* Faulty variant of the dispatch: the inner else branches (lines 118, 132
\* and 146) are missing, so an unknown output format goes unnoticed.
DispatchFatalInputOnly(input_format, output_format) ==
  IF input_format \notin {"piece", "map", "id"} THEN "unknown_input_format"
  ELSE ""

\* The LOG(FATAL) of lines 119, 133, 147 and 151, "" when none is reached.
DispatchFatal(input_format, output_format) ==
  IF input_format \notin {"piece", "map", "id"} THEN "unknown_input_format"
  ELSE IF output_format \notin OutputFormats THEN "unknown_output_format"
  ELSE ""

Dispatch ==
  /\ pc = "dispatch"
  /\ process' = ProcessFor(FLAGS_input_format, FLAGS_output_format)
  /\ process_int' = ProcessIntFor(FLAGS_input_format, FLAGS_output_format)
  /\ IF DispatchFatal(FLAGS_input_format, FLAGS_output_format) # ""
     THEN Fatal(DispatchFatal(FLAGS_input_format, FLAGS_output_format))
     ELSE pc' = "batch" /\ UNCHANGED <<exit, fatal>>
  /\ UNCHANGED <<flags, rest_args, fileIdx, inPos, line, detok, world, harness>>

(***************************************************************************)
(* The closures (lines 110-145).                                           *)
(***************************************************************************)
\* The kind of batch the closure hands to Decode.
ClosureKind(c) == IF c \in {"piece_string", "piece_proto"} THEN "pieces" ELSE "ids"

\* The batch the closure hands to Decode.
ClosureInput(c, arg) == IF c \in {"id_string", "id_proto"} THEN ToIds(arg) ELSE arg

\* Faulty variant of the closures: the "id" closure of line 138 lacks its
\* WriteLine.
ClosureWritesNotId(c) == c \in {"piece_string", "map_string"}

\* Faulty variant of the closures: the record closures write `detok` too.
ClosureWritesAlways(c) == TRUE

\* Whether the closure decodes to text and writes it (output->WriteLine).
ClosureWrites(c) == c \in {"piece_string", "map_string", "id_string"}

\* Whether an invocation of the slot's content returns.
CallReturns(c, arg) ==
  c # "unset" /\ DecodeOk(ClosureKind(c), ClosureInput(c, arg))

\* Faulty variant of the invocation: a failed Decode is reported and the
\* run goes on with the next unit.
InvokeLenient(slot, c, arg, next_pc) ==
  LET input == ClosureInput(c, arg)
      text == DecodeText(ClosureKind(c), input)
  IN  /\ calls' = Append(calls, [slot    |-> slot,
                                 closure |-> c,
                                 file    |-> fileIdx,
                                 arg     |-> arg,
                                 ok      |-> CallReturns(c, arg)])
      /\ IF c = "unset"
         THEN Fatal("bad_function_call") /\ UNCHANGED <<detok, sink>>
         ELSE /\ pc' = next_pc
              /\ UNCHANGED <<exit, fatal>>
              /\ IF ClosureWrites(c) /\ DecodeOk(ClosureKind(c), input)
                 THEN detok' = text /\ sink' = Append(sink, text)
                 ELSE UNCHANGED <<detok, sink>>

\* The invocation of a closure slot holding c.  An empty std::function
\* throws std::bad_function_call, which nothing catches; a failed Decode is
\* fatal (CHECK_OK); a text closure then assigns detok and writes it as one
\* line, a record closure only fills spt, which nothing reads.
Invoke(slot, c, arg, next_pc) ==
  LET input == ClosureInput(c, arg)
      text == DecodeText(ClosureKind(c), input)
  IN  /\ calls' = Append(calls, [slot    |-> slot,
                                 closure |-> c,
                                 file    |-> fileIdx,
                                 arg     |-> arg,
                                 ok      |-> CallReturns(c, arg)])
      /\ IF c = "unset"
         THEN Fatal("bad_function_call") /\ UNCHANGED <<detok, sink>>
         ELSE IF ~DecodeOk(ClosureKind(c), input)
         THEN Fatal("decode") /\ UNCHANGED <<detok, sink>>
         ELSE /\ pc' = next_pc
              /\ UNCHANGED <<exit, fatal>>
              /\ IF ClosureWrites(c)
                 THEN detok' = text /\ sink' = Append(sink, text)
                 ELSE UNCHANGED <<detok, sink>>

(***************************************************************************)
(* The batch runner (lines 154-170).                                       *)
(***************************************************************************)
\* Faulty variant of line 154: the runner takes the text loop for every
\* format.
RunnerSlotAlwaysText(input_format) == "process"

\* The slot the batch runner calls for the format (line 154).
RunnerSlot(input_format) == IF input_format = "map" THEN "process_int" ELSE "process"

\* Lines 155-158: one file of the "map" loop.
MapFile ==
  /\ pc = "batch"
  /\ RunnerSlot(FLAGS_input_format) = "process_int"
  /\ fileIdx <= Len(rest_args)
  /\ LET filename == rest_args[fileIdx]
         ids == readFileToVector(filename)
     IN  /\ opened' = Append(opened,
                        [path   |-> filename,
                         stream |-> IF IfstreamOk(filename) THEN "file" ELSE "none"])
         /\ Invoke("process_int", process_int, ids, "batch")
         /\ fileIdx' = IF CallReturns(process_int, ids) THEN fileIdx + 1 ELSE fileIdx
  /\ UNCHANGED <<flags, rest_args, process, process_int, inPos, line,
                 outOpened, harness>>

\* Faulty variant of line 162: the status of the source is not checked.
InputStatusIgnored(filename) == FALSE

\* Line 162: CHECK_OK(input->status()) ends the run when the source did
\* not open.
InputStatusFatal(filename) == ~ReadableOk(filename)

\* Lines 160-162: the next text source is opened.
OpenInput ==
  /\ pc = "batch"
  /\ RunnerSlot(FLAGS_input_format) = "process"
  /\ fileIdx <= Len(rest_args)
  /\ LET filename == rest_args[fileIdx]
     IN  /\ opened' = Append(opened,
                        [path   |-> filename,
                         stream |-> IF ~ReadableOk(filename) THEN "none"
                                    ELSE IF filename = "" THEN "stdin" ELSE "file"])
         /\ IF InputStatusFatal(filename)
            THEN Fatal("open_input") /\ UNCHANGED inPos
            ELSE pc' = "lines" /\ inPos' = 0 /\ UNCHANGED <<exit, fatal>>
  /\ UNCHANGED <<flags, rest_args, process, process_int, fileIdx, line, detok,
                 outOpened, sink, calls, harness>>

\* Lines 163-166: one ReadLine, and the closure on the line's pieces; at the
\* end of the source the loop moves to the next one.
ReadLineStep ==
  /\ pc = "lines"
  /\ LET r == ReadLine(ReadableBytes(rest_args[fileIdx]), inPos)
     IN  IF r.ok
         THEN /\ line' = r.line
              /\ inPos' = r.pos
              /\ Invoke("process", process, StrSplit(r.line), "lines")
              /\ UNCHANGED fileIdx
         ELSE /\ pc' = "batch"
              /\ fileIdx' = fileIdx + 1
              /\ UNCHANGED <<inPos, line, detok, sink, calls, exit, fatal>>
  /\ UNCHANGED <<flags, rest_args, process, process_int, outOpened, opened,
                 harness>>

\* Line 170: return 0.
Return ==
  /\ pc = "batch"
  /\ fileIdx > Len(rest_args)
  /\ pc' = "done"
  /\ exit' = "zero"
  /\ UNCHANGED <<flags, locals, world, fatal, harness>>

Next ==
  \/ BuildRestArgs
  \/ CheckModel
  \/ LoadModel
  \/ OpenOutput
  \/ Dispatch
  \/ MapFile
  \/ OpenInput
  \/ ReadLineStep
  \/ Return

Spec == Init /\ [][Next]_vars

(***************************************************************************)
(* Single applications of the pure functions, on inputs drawn from bounded *)
(* sets.  The run of main() stays idle in these specifications.            *)
(***************************************************************************)
\* '1', '5', '-', '+', 'x', ' ' and the tab.
SampleChars == {49, 53, 45, 43, 120, 32, 9}
\* The line "15 42 7".
ScenarioLine == <<49, 53, 32, 52, 50, 32, 55>>
\* Byte values for the binary files.
SampleBytes == {0, 15, 42, 128, 255}

MainIdle ==
  /\ FLAGS_model = ""
  /\ FLAGS_input = ""
  /\ FLAGS_output = ""
  /\ FLAGS_input_format = "piece"
  /\ FLAGS_output_format = "string"
  /\ FLAGS_extra_options = ""
  /\ argv = <<>>
  /\ pc = "idle"
  /\ rest_args = <<>>
  /\ process = "unset"
  /\ process_int = "unset"
  /\ fileIdx = 1
  /\ inPos = 0
  /\ line = <<>>
  /\ detok = NoText
  /\ outOpened = FALSE
  /\ sink = <<>>
  /\ opened = <<>>
  /\ calls = <<>>
  /\ exit = "running"
  /\ fatal = ""

InitToIds ==
  /\ MainIdle
  /\ h_pc = "line"
  /\ h_in \in SeqsUpTo(SampleChars, MaxLineLen) \cup {ScenarioLine}
  /\ h_out = [pieces |-> <<>>, ids |-> <<>>]

\* Lines 164 and 139: the line is split and its pieces go through ToIds.
ApplyToIds ==
  /\ h_pc = "line"
  /\ h_out' = [pieces |-> StrSplit(h_in), ids |-> ToIds(StrSplit(h_in))]
  /\ h_pc' = "ids"
  /\ UNCHANGED <<flags, pc, locals, world, exit, fatal, h_in>>

SpecToIds == InitToIds /\ [][ApplyToIds]_vars

InitRead ==
  /\ MainIdle
  /\ h_pc = "file"
  /\ h_in \in SeqsUpTo(SampleBytes, MaxBytes)
  /\ h_out = <<>>

\* Lines 47-65: the file opened; its bytes are read into the vector.
ApplyRead ==
  /\ h_pc = "file"
  /\ h_out' = ReadVector(h_in)
  /\ h_pc' = "vector"
  /\ UNCHANGED <<flags, pc, locals, world, exit, fatal, h_in>>

SpecRead == InitRead /\ [][ApplyRead]_vars

(***************************************************************************)
(* The input units of a run, read off the flags and the environment.       *)
(***************************************************************************)
\* The input sources the flags name, in argument order.
Sources ==
  IF FLAGS_input # "" THEN <<FLAGS_input>>
  ELSE IF argv = <<>> THEN <<"">>
  ELSE argv

\* The lines of a text: the stretches between its NL bytes.
RECURSIVE LinesOf(_)
LinesOf(bytes) ==
  IF bytes = <<>> THEN <<>>
  ELSE LET nls == {i \in 1..Len(bytes) : bytes[i] = NL}
       IN  IF nls = {} THEN <<bytes>>
           ELSE LET k == CHOOSE i \in nls : \A j \in nls : i <= j
                IN  <<SubSeq(bytes, 1, k - 1)>>
                      \o LinesOf(SubSeq(bytes, k + 1, Len(bytes)))

\* What Decode is given for a line under a text input format.
LineInput(l) ==
  IF FLAGS_input_format = "piece" THEN StrSplit(l) ELSE ToIds(StrSplit(l))

TextKind == IF FLAGS_input_format = "piece" THEN "pieces" ELSE "ids"

\* The units of the text sources from the i-th on: one per line, up to and
\* including the first source that does not open.
RECURSIVE TextUnits(_)
TextUnits(i) ==
  IF i > Len(Sources) THEN <<>>
  ELSE IF ~ReadableOk(Sources[i])
  THEN << [src |-> i, open |-> FALSE, kind |-> TextKind, input |-> <<>>] >>
  ELSE LET ls == LinesOf(ReadableBytes(Sources[i]))
       IN  [k \in 1..Len(ls) |->
              [src |-> i, open |-> TRUE, kind |-> TextKind,
               input |-> LineInput(ls[k])]] \o TextUnits(i + 1)

\* The units of the run: one per file under "map", one per line otherwise.
Units ==
  IF FLAGS_input_format = "map"
  THEN [k \in 1..Len(Sources) |->
          [src |-> k, open |-> TRUE, kind |-> "ids",
           input |-> readFileToVector(Sources[k])]]
  ELSE TextUnits(1)

\* A unit on which the run ends: its source does not open or Decode fails.
UnitFatal(u) == ~u.open \/ ~DecodeOk(u.kind, u.input)

\* The index of the first such unit, Len(Units) + 1 when there is none.
FirstFatal ==
  IF \E k \in 1..Len(Units) : UnitFatal(Units[k])
  THEN CHOOSE k \in 1..Len(Units) :
         UnitFatal(Units[k]) /\ \A j \in 1..(k - 1) : ~UnitFatal(Units[j])
  ELSE Len(Units) + 1

\* The string decodes of the first n units, in order.
DecodedLines(n) == [k \in 1..n |-> DecodeText(Units[k].kind, Units[k].input)]

InBatch == pc \in {"batch", "lines", "done"} \/ fatal \in {"decode", "open_input"}

(***************************************************************************)
(* Properties of the run, checked under Spec.                              *)
(***************************************************************************)
\* The ids of the k-th source under "map" as the sources are described:
\* the empty path stands for the standard input, a file that does not open
\* for the empty sequence.
SourceIds(k) ==
  IF Sources[k] = "" THEN ReadVector(StdinData)
  ELSE readFileToVector(Sources[k])

\* The units of the run with the empty path read from the standard input
\* under every input format.
UnitsFromStdin ==
  IF FLAGS_input_format = "map"
  THEN [k \in 1..Len(Sources) |->
          [src |-> k, open |-> TRUE, kind |-> "ids", input |-> SourceIds(k)]]
  ELSE TextUnits(1)

\* C1: a run with output format "string" that ends without a fatal error
\* has written exactly one line per input unit, the k-th line being the
\* string decode of the k-th unit (sources in argument order, lines in line
\* order; the empty path being the standard input).
C1_OneLinePerUnitInOrder ==
  (exit = "zero" /\ FLAGS_output_format = "string") =>
    /\ Len(sink) = Len(UnitsFromStdin)
    /\ sink = [k \in 1..Len(UnitsFromStdin) |->
                 DecodeText(UnitsFromStdin[k].kind, UnitsFromStdin[k].input)]

\* The same with the units as the code reads them (under "map" the empty
\* path opens nothing and counts as the empty sequence): this form holds in
\* every run.
LinesFollowUnitsRead ==
  (exit = "zero" /\ FLAGS_output_format = "string") =>
    /\ Len(sink) = Len(Units)
    /\ sink = DecodedLines(Len(Units))

\* The state part of C2: nothing is decoded, opened or written past the
\* first fatal unit, the run does not end well when there is one, and after
\* the fatal error the sink holds the lines of the units before it.
C2_State ==
  InBatch =>
    /\ Len(calls) <= FirstFatal
    /\ Len(sink) <= FirstFatal - 1
    /\ FirstFatal <= Len(Units) =>
         /\ exit # "zero"
         /\ Len(opened) <= Units[FirstFatal].src
    /\ fatal \in {"decode", "open_input"} =>
         /\ exit = "nonzero"
         /\ FirstFatal <= Len(Units)
         /\ (fatal = "open_input") = ~Units[FirstFatal].open
         /\ Len(opened) = Units[FirstFatal].src
         /\ Len(calls) = IF fatal = "decode" THEN FirstFatal ELSE FirstFatal - 1
         /\ sink = IF FLAGS_output_format = "string"
                   THEN DecodedLines(FirstFatal - 1)
                   ELSE <<>>

\* C2: once a fatal condition occurs (a failed Decode, a text source that
\* does not open) the process ends non-zero and nothing changes any more:
\* no later unit is decoded, no later source opened, no line written, and
\* the sink holds exactly the lines of the units decoded before.
C2_FatalEndsTheRun ==
  /\ []C2_State
  /\ [][exit = "nonzero" => UNCHANGED vars]_vars

\* A Decode failed on the second line of the second source, after four
\* lines were written.
C2_Witness ==
  /\ fatal = "decode"
  /\ exit = "nonzero"
  /\ FLAGS_input_format = "id"
  /\ FLAGS_output_format = "string"
  /\ argv = <<"pieces.txt", "ids.txt">>
  /\ FLAGS_input = ""
  /\ Len(sink) = 4
  /\ Len(calls) = 5

\* C3: under "piece" and "id", an empty input line makes the runner invoke
\* the string-batch closure with zero tokens, and with output format
\* "string" that invocation appends one line to the sink.
C3_EmptyLineStillDecoded ==
  [][pc = "lines" =>
       LET bytes == ReadableBytes(rest_args[fileIdx])
       IN  (inPos < Len(bytes) /\ bytes[inPos + 1] = NL) =>
             /\ Len(calls') = Len(calls) + 1
             /\ calls'[Len(calls')].slot = "process"
             /\ calls'[Len(calls')].closure # "unset"
             /\ calls'[Len(calls')].arg = <<>>
             /\ FLAGS_output_format = "string" =>
                  sink' = Append(sink, DecodeText(TextKind, <<>>))]_vars

\* The empty second line of pieces.txt was decoded under "id" and written.
C3_Witness ==
  /\ pc = "lines"
  /\ FLAGS_input_format = "id"
  /\ FLAGS_output_format = "string"
  /\ rest_args[fileIdx] = "pieces.txt"
  /\ line = <<>>
  /\ Len(calls) = 2
  /\ calls[2].arg = <<>>
  /\ Len(sink) = 2
  /\ sink[2] = DecodeText("ids", <<>>)

\* The flags hold a configuration error.
ConfigError ==
  \/ FLAGS_model = ""
  \/ FLAGS_input_format \notin {"piece", "id", "map"}
  \/ FLAGS_output_format \notin {"string", "proto"}

\* C5 as claimed: when the run aborts on a configuration error, the sink
\* has not been opened, no input source has been opened and no decode call
\* has been made.
C5_ConfigErrorBeforeAnyIO ==
  (exit = "nonzero" /\ fatal \in {"model_empty", "unknown_input_format",
                                  "unknown_output_format"}) =>
    /\ ~outOpened
    /\ opened = <<>>
    /\ calls = <<>>

\* C5 (amended): with a configuration error in the flags the run never ends
\* well, never opens an input source, never calls Decode and never writes;
\* an empty --model is detected before the sink is opened, while an unknown
\* input or output format is detected only after the model was loaded and
\* the sink opened.
C5_ConfigErrorBeforeAnyInput ==
  /\ ConfigError =>
       /\ exit # "zero"
       /\ opened = <<>>
       /\ calls = <<>>
       /\ sink = <<>>
  /\ fatal = "model_empty" => ~outOpened
  /\ fatal \in {"unknown_input_format", "unknown_output_format"} =>
       /\ outOpened
       /\ LoadOk(FLAGS_model)
       /\ exit = "nonzero"

\* The run aborted on an unknown output format under "map", the sink open.
C5_Witness ==
  /\ fatal = "unknown_output_format"
  /\ FLAGS_input_format = "map"
  /\ exit = "nonzero"
  /\ outOpened
  /\ opened = <<>>

\* C6 as claimed: the list of input sources is never empty, it is --input
\* alone when that is non-empty, else the positional arguments in order,
\* else the single empty path; and the empty path is read from the standard
\* input under every input format.
C6_EmptyPathIsStdin ==
  pc \notin {"args", "idle"} =>
    /\ rest_args # <<>>
    /\ rest_args = Sources
    /\ \A k \in 1..Len(opened) :
         opened[k].path = "" => opened[k].stream = "stdin"

\* C7: the number of lines in the sink equals the number of closure
\* invocations that returned and produced text; with output format "proto"
\* the sink stays empty whatever is invoked.
C7_LinesEqualTextInvocations ==
  /\ FLAGS_output_format = "string" =>
       Len(sink) = Cardinality({k \in 1..Len(calls) : calls[k].ok})
  /\ FLAGS_output_format # "string" => sink = <<>>

\* Three lines went through the "id" record closure and nothing was written.
C7_Witness ==
  /\ FLAGS_output_format = "proto"
  /\ FLAGS_input_format = "id"
  /\ Len(calls) = 3
  /\ \A k \in 1..3 : calls[k].ok
  /\ sink = <<>>
  /\ exit = "zero"

\* C8: under "map" a file that does not open never ends the run: the
\* integer closure is invoked once per file, in order, with the empty
\* sequence for such a file, and the run goes on to the later files (it
\* ends early only on a failed Decode); under "piece" and "id" a source
\* that does not open ends the run at once, none of its lines and no later
\* source being processed.
C8_OpenFailureAsymmetry ==
  /\ FLAGS_input_format = "map" =>
       /\ fatal # "open_input"
       /\ Len(opened) = Len(calls)
       /\ \A k \in 1..Len(calls) :
            /\ calls[k].file = k
            /\ opened[k].path = rest_args[k]
            /\ ~FileExists(rest_args[k]) =>
                 /\ calls[k].arg = <<>>
                 /\ calls[k].ok
                 /\ opened[k].stream = "none"
       /\ pc = "batch" => fileIdx = Len(calls) + 1
       /\ exit = "zero" => Len(calls) = Len(rest_args)
  /\ FLAGS_input_format \in {"piece", "id"} =>
       \A k \in 1..Len(opened) :
         opened[k].stream = "none" =>
           /\ k = Len(opened)
           /\ fatal = "open_input"
           /\ exit = "nonzero"
           /\ \A j \in 1..Len(calls) : calls[j].file < k

\* Under "map" the missing first file was decoded as the empty sequence and
\* the second file was processed after it.
C8_Witness ==
  /\ FLAGS_input_format = "map"
  /\ rest_args = <<"missing", "ids.bin">>
  /\ exit = "zero"
  /\ Len(calls) = 2
  /\ calls[1].arg = <<>>
  /\ calls[2].arg = <<15, 42>>

\* The closure lines 108-152 select for a valid pair of formats.
SelectedClosure ==
  CASE FLAGS_input_format = "piece" /\ FLAGS_output_format = "string" -> "piece_string"
    [] FLAGS_input_format = "piece" /\ FLAGS_output_format = "proto" -> "piece_proto"
    [] FLAGS_input_format = "id" /\ FLAGS_output_format = "string" -> "id_string"
    [] FLAGS_input_format = "id" /\ FLAGS_output_format = "proto" -> "id_proto"
    [] FLAGS_input_format = "map" /\ FLAGS_output_format = "string" -> "map_string"
    [] FLAGS_input_format = "map" /\ FLAGS_output_format = "proto" -> "map_proto"
    [] OTHER -> "unset"

\* The state part of C10.
C10_State ==
  /\ pc \in {"args", "check_model", "load", "open_output", "dispatch"} =>
       /\ process = "unset"
       /\ process_int = "unset"
       /\ opened = <<>>
       /\ calls = <<>>
  /\ pc \in {"batch", "lines", "done"} =>
       /\ (process = "unset") # (process_int = "unset")
       /\ (process_int # "unset") = (FLAGS_input_format = "map")
  /\ \A k \in 1..Len(calls) :
       /\ calls[k].closure # "unset"
       /\ calls[k].closure = SelectedClosure
       /\ calls[k].slot = IF FLAGS_input_format = "map" THEN "process_int" ELSE "process"
       /\ calls[k].closure = IF calls[k].slot = "process" THEN process ELSE process_int

\* C10: for a valid pair of formats exactly one of the two closure slots is
\* assigned, before the first input unit is read; a slot changes only at
\* the dispatch and an assigned slot never changes; the batch runner only
\* invokes the assigned slot (process_int exactly under "map"), never an
\* empty one.
C10_OneClosureOnce ==
  /\ []C10_State
  /\ [][/\ process # "unset" => process' = process
        /\ process_int # "unset" => process_int' = process_int
        /\ (process' # process \/ process_int' # process_int) => pc = "dispatch"]_vars

\* Under "map" the integer closure was invoked twice, the other slot empty.
C10_Witness ==
  /\ FLAGS_input_format = "map"
  /\ process = "unset"
  /\ process_int = "map_proto"
  /\ Len(calls) = 2
  /\ pc = "done"

(***************************************************************************)
(* Properties of ToIds, checked under SpecToIds.                           *)
(***************************************************************************)
RECURSIVE Pow10(_)
Pow10(n) == IF n = 0 THEN 1 ELSE 10 * Pow10(n - 1)

\* The number read off the digits s[from..from+n-1].
RECURSIVE DigitsValue(_, _, _)
DigitsValue(s, from, n) ==
  IF n = 0 THEN 0
  ELSE (s[from] - 48) * Pow10(n - 1) + DigitsValue(s, from + 1, n - 1)

\* The value of the longest leading part of s of the shape: white space,
\* an optional sign, digits; 0 when that part has no digit.
LeadingValue(s) ==
  LET ws == CHOOSE k \in 0..Len(s) :
              /\ \A j \in 1..k : IsSpace(s[j])
              /\ k = Len(s) \/ ~IsSpace(s[k + 1])
      signed == ws < Len(s) /\ s[ws + 1] \in {43, 45}
      from == IF signed THEN ws + 2 ELSE ws + 1
      n == CHOOSE k \in 0..(Len(s) + 1 - from) :
             /\ \A j \in from..(from + k - 1) : IsDigit(s[j])
             /\ from + k > Len(s) \/ ~IsDigit(s[from + k])
      v == DigitsValue(s, from, n)
  IN  IF signed /\ s[ws + 1] = 45 THEN -v ELSE v

\* A token that is a decimal integer: an optional sign and then digits only.
IsDecimalInteger(s) ==
  LET from == IF Len(s) >= 1 /\ s[1] \in {43, 45} THEN 2 ELSE 1
  IN  from <= Len(s) /\ \A j \in from..Len(s) : IsDigit(s[j])

\* C4 as claimed: every token that is a decimal integer is converted to its
\* value and every other token to the id 0.
C4_UnparseableIsZero ==
  h_pc = "ids" =>
    /\ Len(h_out.ids) = Len(h_out.pieces)
    /\ \A k \in 1..Len(h_out.pieces) :
         h_out.ids[k] = IF IsDecimalInteger(h_out.pieces[k])
                        THEN LeadingValue(h_out.pieces[k])
                        ELSE 0

\* C4 (amended): the conversion yields one id per token and never fails;
\* each token is converted to the value of its longest leading part of the
\* shape white space, optional sign, digits (so "15" gives 15 and "1x"
\* gives 1), and to 0 only when that part has no digit; the line "15 42 7"
\* gives [15, 42, 7].
C4_LeadingDigitsValue ==
  h_pc = "ids" =>
    /\ Len(h_out.ids) = Len(h_out.pieces)
    /\ \A k \in 1..Len(h_out.pieces) :
         h_out.ids[k] = LeadingValue(h_out.pieces[k])
    /\ h_in = ScenarioLine => h_out.ids = <<15, 42, 7>>

\* The line "1x 5" was converted: a token with a digit before a letter.
C4_Witness ==
  /\ h_pc = "ids"
  /\ h_in = <<49, 120, 32, 53>>
  /\ h_out.pieces = << <<49, 120>>, <<53>> >>
  /\ h_out.ids = <<1, 5>>

(***************************************************************************)
(* Properties of readFileToVector, checked under SpecRead.                 *)
(***************************************************************************)
\* C9: a file of n bytes b yields exactly floor(n/2) integers, the i-th one
\* being b[2i] + 256*b[2i+1] (0-based), each in 0..65535; the last byte of
\* a file of odd size contributes to no element.
C9_ReadVectorLittleEndian ==
  h_pc = "vector" =>
    /\ Len(h_out) * 2 <= Len(h_in)
    /\ Len(h_in) <= Len(h_out) * 2 + 1
    /\ \A i \in 1..Len(h_out) :
         /\ h_out[i] = h_in[2 * i - 1] + 256 * h_in[2 * i]
         /\ h_out[i] \in 0..65535

\* A file of three bytes FF FF 0F was read: one element, 65535.
C9_Witness ==
  /\ h_pc = "vector"
  /\ h_in = <<255, 255, 15>>
  /\ h_out = <<65535>>

=============================================================================
